---- MODULE Spec2Model ----
(***************************************************************************)
(* The earnings-play pipeline of earnings_scanner.py and utils.py:         *)
(* get_earnings_for_date -> filter_stocks -> analyze_earnings_plays ->     *)
(* print_results, as main() wires them.  Strings are sequences of          *)
(* one-character strings so that strip() and case are real.                *)
(***************************************************************************)
EXTENDS Integers, Sequences, FiniteSets, TLC

\* ------------------------------------------------------------------ bounds
MaxRows == 2
MaxLines == 2

\* ------------------------------------------------------- generic helpers
RECURSIVE SeqsUpTo(_, _)
SeqsUpTo(S, n) ==
    IF n = 0 THEN {<<>>}
    ELSE LET shorter == SeqsUpTo(S, n - 1)
         IN  shorter \cup {Append(s, x) : s \in {t \in shorter : Len(t) = n - 1}, x \in S}

Range(s) == {s[i] : i \in 1..Len(s)}

\* ------------------------------------------------------------ the inputs
\* Ticker symbols the calendar source can report.
Symbols == {<<"A">>, <<"a">>}

\* The 'time' cell of a calendar row, when the row has one.
TimeValues == {"bmo"}

\* One row of the DataFrame returned by get_earnings_by_date: the index is
\* the symbol, the 'time' column may be absent.
Rows == {[symbol |-> s, has_time |-> h, time |-> t] :
            s \in Symbols, h \in BOOLEAN, t \in TimeValues}

\* What finance_calendars.get_earnings_by_date can do: raise, or return a
\* DataFrame (possibly empty).
SourceOutcomes ==
    {[kind |-> "raise", rows |-> <<>>]}
        \cup {[kind |-> "df", rows |-> r] : r \in SeqsUpTo(Rows, MaxRows)}

\* --date as argparse delivers it: None, or a string.  fmt says how the
\* string is laid out: "ymd" is YYYY-MM-DD, "mdy" is 'Jul 24 2025'.
NoDate == [fmt |-> "none", y |-> 0, m |-> 0, d |-> 0]
DateArgs ==
    { NoDate,
      [fmt |-> "ymd", y |-> 2024, m |-> 2,  d |-> 29],
      [fmt |-> "ymd", y |-> 2025, m |-> 2,  d |-> 29],
      [fmt |-> "ymd", y |-> 2025, m |-> 13, d |-> 1],
      [fmt |-> "mdy", y |-> 2025, m |-> 7,  d |-> 24] }

\* Lines of static_stocks.txt as readlines() yields them.
Whitespace == {" ", "\n"}
FileLines == { <<"A", "\n">>, <<"a", "\n">>, <<" ", "A", "\n">>, <<"A", "B", "\n">> }
NoFile == [exists |-> FALSE, lines |-> <<>>]
Files == {NoFile} \cup {[exists |-> TRUE, lines |-> l] : l \in SeqsUpTo(FileLines, MaxLines)}

\* The rule sets filter_stocks can be given: None, {}, or a dict holding
\* 'use_static_list'.
RuleSets == {[given |-> g, has |-> h, val |-> v] :
                g \in BOOLEAN, h \in BOOLEAN, v \in BOOLEAN}
MainRules == [given |-> TRUE, has |-> TRUE, val |-> TRUE]

\* What compute_recommendation can do for one symbol: raise, return a value
\* that is no dict, or return a dict holding some of the four keys.
SignalKeys == <<"avg_volume", "iv30_rv30", "ts_slope_0_45", "expected_move">>
AllKeys == Range(SignalKeys)
NoResult ==
    [kind |-> "none", keys |-> {}, avg_volume |-> FALSE, iv30_rv30 |-> FALSE,
     ts_slope_0_45 |-> FALSE, expected_move |-> "", msg |-> ""]
ScorerOutcomes ==
    { [NoResult EXCEPT !.kind = "raise", !.msg = "boom"],
      [NoResult EXCEPT !.kind = "nondict"] }
    \cup { [NoResult EXCEPT !.kind = "dict", !.keys = AllKeys, !.avg_volume = a,
                            !.iv30_rv30 = b, !.ts_slope_0_45 = c, !.expected_move = "5%"] :
              a \in BOOLEAN, b \in BOOLEAN, c \in BOOLEAN }
    \cup { [NoResult EXCEPT !.kind = "dict", !.keys = k, !.avg_volume = TRUE,
                            !.iv30_rv30 = TRUE, !.ts_slope_0_45 = TRUE, !.expected_move = "5%"] :
              k \in { AllKeys \ {"expected_move"}, {} } }

\* ----------------------------------------------------------------- state
VARIABLES
    pc,               \* where main() / analyze_earnings_plays stands
    args_date,        \* args.date
    source,           \* what the calendar source did when queried ("none": not queried)
    resolved,         \* what get_earnings_for_date did: [kind, val]
    earnings_tickers, \* main's earnings_tickers (the analyser's `tickers` once filtered)
    loads,            \* calls of get_static_stocks so far
    allow_list,       \* the names in static_stocks as filter_stocks last loaded it
    filter_calls,     \* calls of filter_stocks so far
    idx,              \* enumerate(tickers, 1): index of the entry in hand
    result,           \* compute_recommendation's return value in hand
    exc,              \* str(e) of the exception in flight inside the try
    recommended, consider, avoid, errors,
    results,          \* history: what the scorer did for entry 1, 2, ...
    trace,            \* history: progress lines, scorer calls and sleeps, in order
    f_in, f_rules, f_file, f_out   \* a direct call filter_stocks(f_in, f_rules)

vars == << pc, args_date, source, resolved, earnings_tickers, loads, allow_list,
           filter_calls, idx, result, exc, recommended, consider, avoid, errors,
           results, trace, f_in, f_rules, f_file, f_out >>

analyzerVars == << idx, result, exc, recommended, consider, avoid, errors, results, trace >>
filterVars == << f_in, f_rules, f_file, f_out >>

\* ------------------------------------------------- get_earnings_for_date
IsLeap(y) == (y % 4 = 0 /\ y % 100 # 0) \/ y % 400 = 0

DaysInMonth(y, m) ==
    IF m = 2 THEN (IF IsLeap(y) THEN 29 ELSE 28)
    ELSE IF m \in {4, 6, 9, 11} THEN 30 ELSE 31

\* datetime.datetime.strptime(date_str, "%Y-%m-%d") parses (else ValueError).
StrpTimeOK(date_str) ==
    /\ date_str.fmt = "ymd"
    /\ date_str.y \in 1..9999
    /\ date_str.m \in 1..12
    /\ date_str.d \in 1..DaysInMonth(date_str.y, date_str.m)

\* row.get('time', 'time-not-supplied') and the dict built from it.
RowToTicker(row) ==
    [symbol |-> row.symbol,
     time   |-> IF row.has_time THEN row.time ELSE "time-not-supplied"]

\* for symbol, row in earnings_df.iterrows(): tickers.append(...)
RECURSIVE RowsToTickers(_)
RowsToTickers(rows) ==
    IF rows = <<>> THEN <<>>
    ELSE <<RowToTicker(Head(rows))>> \o RowsToTickers(Tail(rows))

\* except ValueError: print(...); return []
OnBadDate == [kind |-> "return", val |-> <<>>]

\* Mutant: the except clause is missing and the source's exception escapes.
OnSourceError_Propagates == [kind |-> "raise", val |-> <<>>]

\* except Exception as e: print(...); return []
OnSourceError == [kind |-> "return", val |-> <<>>]

\* The whole function: what it hands its caller, and whether it asked the
\* calendar source.
GetEarningsForDate(date_str, src) ==
    IF date_str # NoDate /\ ~StrpTimeOK(date_str)
    THEN [ret |-> OnBadDate, queried |-> FALSE]
    ELSE IF src.kind = "raise"
    THEN [ret |-> OnSourceError, queried |-> TRUE]
    ELSE IF src.rows = <<>>
    THEN [ret |-> [kind |-> "return", val |-> <<>>], queried |-> TRUE]
    ELSE LET tickers == RowsToTickers(src.rows)
         IN  [ret |-> [kind |-> "return", val |-> tickers], queried |-> TRUE]

\* ----------------------------------------------------------- filter_stocks
\* line.strip()
RECURSIVE LStrip(_)
LStrip(s) == IF s # <<>> /\ Head(s) \in Whitespace THEN LStrip(Tail(s)) ELSE s

RECURSIVE RStrip(_)
RStrip(s) ==
    IF s # <<>> /\ s[Len(s)] \in Whitespace THEN RStrip(SubSeq(s, 1, Len(s) - 1)) ELSE s

Strip(s) == RStrip(LStrip(s))

\* [line.strip() for line in f.readlines()]
RECURSIVE GetStaticStocks(_)
GetStaticStocks(lines) ==
    IF lines = <<>> THEN <<>>
    ELSE <<Strip(Head(lines))>> \o GetStaticStocks(Tail(lines))

\* Truth of rules.get('use_static_list'), rules = None standing for {}.
UseStaticList(rules) == rules.given /\ rules.has /\ rules.val

\* str.upper(), for the mutant below.
UpperChar(c) == IF c = "a" THEN "A" ELSE c
Upper(s) == [i \in 1..Len(s) |-> UpperChar(s[i])]

\* Mutant: the membership test ignores case.
IncludeTicker_CaseFold(symbol, rules, static) ==
    ~(UseStaticList(rules) /\ Upper(symbol) \notin {Upper(x) : x \in Range(static)})

\* Mutant: the static-list rule is never applied.
IncludeTicker_All(symbol, rules, static) == TRUE

\* include_ticker after the rule checks of one loop iteration.
IncludeTicker(symbol, rules, static) ==
    ~(UseStaticList(rules) /\ symbol \notin Range(static))

\* for ticker_info in tickers: ... filtered_tickers.append(ticker_info)
RECURSIVE FilterLoop(_, _, _, _)
FilterLoop(tickers, rules, static, filtered_tickers) ==
    IF tickers = <<>> THEN filtered_tickers
    ELSE FilterLoop(Tail(tickers), rules, static,
                    IF IncludeTicker(Head(tickers).symbol, rules, static)
                    THEN Append(filtered_tickers, Head(tickers))
                    ELSE filtered_tickers)

\* The whole function on the file it finds: its outcome, whether it called
\* get_static_stocks, and the list that call returned.  open() of a missing
\* file raises and nothing catches it.
FilterStocks(tickers, rules, file) ==
    IF UseStaticList(rules) /\ ~file.exists
    THEN [kind |-> "raise", val |-> <<>>, loaded |-> TRUE, static |-> <<>>]
    ELSE LET static == IF UseStaticList(rules) THEN GetStaticStocks(file.lines) ELSE <<>>
         IN  [kind |-> "return", val |-> FilterLoop(tickers, rules, static, <<>>),
              loaded |-> UseStaticList(rules), static |-> static]

\* ---------------------------------------------------- analyze_earnings_plays
\* Mutant: the isinstance check is missing.
IsDict_Always(r) == TRUE

\* isinstance(result, dict)
IsDict(r) == r.kind = "dict"

\* Position in SignalKeys of the first result[...] lookup that raises
\* KeyError, 0 when all four succeed.
FirstMissing(r) ==
    LET missing == {i \in 1..Len(SignalKeys) : SignalKeys[i] \notin r.keys}
    IN  IF missing = {} THEN 0
        ELSE CHOOSE i \in missing : \A j \in missing : i <= j

\* str(KeyError(key))
KeyErrorStr == <<"'avg_volume'", "'iv30_rv30'", "'ts_slope_0_45'", "'expected_move'">>

\* Mutant: the Consider branch forgets the slope condition.
Recommendation_NoSlope(avg_volume_bool, iv30_rv30_bool, ts_slope_bool) ==
    IF avg_volume_bool /\ iv30_rv30_bool /\ ts_slope_bool THEN "Recommended"
    ELSE IF (avg_volume_bool /\ ~iv30_rv30_bool) \/ (iv30_rv30_bool /\ ~avg_volume_bool)
         THEN "Consider"
         ELSE "Avoid"

\* The conditional expression assigning `recommendation`.
Recommendation(avg_volume_bool, iv30_rv30_bool, ts_slope_bool) ==
    IF avg_volume_bool /\ iv30_rv30_bool /\ ts_slope_bool THEN "Recommended"
    ELSE IF ts_slope_bool /\ ((avg_volume_bool /\ ~iv30_rv30_bool)
                                \/ (iv30_rv30_bool /\ ~avg_volume_bool))
         THEN "Consider"
         ELSE "Avoid"

\* The dict rebound to ticker_info after a successful score.
TickerInfo(entry, r) ==
    [symbol |-> entry.symbol, time |-> entry.time, expected_move |-> r.expected_move,
     recommendation |-> Recommendation(r.avg_volume, r.iv30_rv30, r.ts_slope_0_45)]

\* The if / elif / else choosing the list to append to.
BucketOf(recommendation) ==
    IF recommendation = "Recommended" THEN "recommended"
    ELSE IF recommendation = "Consider" THEN "consider"
    ELSE "avoid"

\* Mutant: nothing is printed.
Progress_Silent(tr, i, symbol) == tr

\* print(f"\rAnalyzing {symbol} ({idx}/{total})...", end="", flush=True)
Progress(tr, i, symbol) == Append(tr, [ev |-> "progress", idx |-> i, symbol |-> symbol])

\* time.sleep(1)
Slept(tr, i, symbol) == Append(tr, [ev |-> "sleep", idx |-> i, symbol |-> symbol])

\* compute_recommendation(symbol) is entered
Called(tr, i, symbol) == Append(tr, [ev |-> "call", idx |-> i, symbol |-> symbol])

\* Mutant: the exception is swallowed without a record.
ErrorsAfter_Dropped(errs, symbol, message) == errs

\* errors.append((symbol, str(e)))
ErrorsAfter(errs, symbol, message) == Append(errs, <<symbol, message>>)

\* Mutant: the except clause ends the loop (break).
AfterExcept_Break == "report"

\* Mutant: the except clause retries the same entry.
AfterExcept_Retry == "call"

\* `continue` in the except clause: back to the for statement.
AfterExcept == "loop"

\* What follows compute_recommendation's return: the sleep.
AfterScorerReturn == "sleep"

\* What follows compute_recommendation's raise: the except clause.
AfterScorerRaise == "except"

Entry == earnings_tickers[idx]

\* ------------------------------------------------------------------ Init
NotQueried == [kind |-> "none", rows |-> <<>>]
NotResolved == [kind |-> "none", val |-> <<>>]
NoRules == [given |-> FALSE, has |-> FALSE, val |-> FALSE]
NoOutcome == [kind |-> "none", val |-> <<>>, loaded |-> FALSE, static |-> <<>>]

InitCommon ==
    /\ source = NotQueried
    /\ resolved = NotResolved
    /\ earnings_tickers = <<>>
    /\ loads = 0
    /\ allow_list = {}
    /\ filter_calls = 0
    /\ idx = 0
    /\ result = NoResult
    /\ exc = ""
    /\ recommended = <<>>
    /\ consider = <<>>
    /\ avoid = <<>>
    /\ errors = <<>>
    /\ results = <<>>
    /\ trace = <<>>
    /\ f_in = <<>>
    /\ f_rules = NoRules
    /\ f_file = NoFile
    /\ f_out = NoOutcome

\* main() after parser.parse_args()
Init ==
    /\ pc = "start"
    /\ args_date \in DateArgs
    /\ InitCommon

\* ------------------------------------------------------------------ main
\* earnings_tickers = get_earnings_for_date(args.date)
MainResolve ==
    /\ pc = "start"
    /\ \E src \in SourceOutcomes :
         LET r == GetEarningsForDate(args_date, src)
         IN  /\ source' = IF r.queried THEN src ELSE NotQueried
             /\ resolved' = r.ret
             /\ earnings_tickers' = r.ret.val
             /\ pc' = IF r.ret.kind = "raise" THEN "crashed" ELSE "resolved"
    /\ UNCHANGED << args_date, loads, allow_list, filter_calls, analyzerVars, filterVars >>

\* if not earnings_tickers: return
MainNoTickers ==
    /\ pc = "resolved"
    /\ earnings_tickers = <<>>
    /\ pc' = "done"
    /\ UNCHANGED << args_date, source, resolved, earnings_tickers, loads, allow_list,
                    filter_calls, analyzerVars, filterVars >>

\* earnings_tickers = filter_stocks(earnings_tickers, rules={'use_static_list': True})
\* and the entry into analyze_earnings_plays (its four lists are fresh).
MainFilter ==
    /\ pc = "resolved"
    /\ earnings_tickers # <<>>
    /\ \E file \in Files :
         LET out == FilterStocks(earnings_tickers, MainRules, file)
         IN  /\ earnings_tickers' = out.val
             /\ loads' = IF out.loaded THEN loads + 1 ELSE loads
             /\ allow_list' = Range(out.static)
             /\ pc' = IF out.kind = "raise" THEN "crashed" ELSE "loop"
    /\ filter_calls' = filter_calls + 1
    /\ UNCHANGED << args_date, source, resolved, analyzerVars, filterVars >>

\* for idx, ticker_info in enumerate(tickers, 1): symbol = ...; print(progress)
LoopNext ==
    /\ pc = "loop"
    /\ idx < Len(earnings_tickers)
    /\ idx' = idx + 1
    /\ trace' = Progress(trace, idx + 1, earnings_tickers[idx + 1].symbol)
    /\ pc' = "call"
    /\ UNCHANGED << args_date, source, resolved, earnings_tickers, loads, allow_list,
                    filter_calls, result, exc, recommended, consider, avoid, errors,
                    results, filterVars >>

\* The for loop is exhausted: print("\n"); return the four lists.
LoopExit ==
    /\ pc = "loop"
    /\ idx = Len(earnings_tickers)
    /\ pc' = "report"
    /\ UNCHANGED << args_date, source, resolved, earnings_tickers, loads, allow_list,
                    filter_calls, analyzerVars, filterVars >>

\* result = compute_recommendation(symbol), the call returning.
ScorerReturns ==
    /\ pc = "call"
    /\ \E o \in {x \in ScorerOutcomes : x.kind # "raise"} :
         /\ result' = o
         /\ results' = Append(results, o)
    /\ trace' = Called(trace, idx, Entry.symbol)
    /\ pc' = AfterScorerReturn
    /\ UNCHANGED << args_date, source, resolved, earnings_tickers, loads, allow_list,
                    filter_calls, idx, exc, recommended, consider, avoid, errors, filterVars >>

\* compute_recommendation(symbol) raising.
ScorerRaises ==
    /\ pc = "call"
    /\ \E o \in {x \in ScorerOutcomes : x.kind = "raise"} :
         /\ exc' = o.msg
         /\ results' = Append(results, o)
    /\ trace' = Called(trace, idx, Entry.symbol)
    /\ pc' = AfterScorerRaise
    /\ UNCHANGED << args_date, source, resolved, earnings_tickers, loads, allow_list,
                    filter_calls, idx, result, recommended, consider, avoid, errors,
                    filterVars >>

\* time.sleep(1)
Sleep ==
    /\ pc = "sleep"
    /\ trace' = Slept(trace, idx, Entry.symbol)
    /\ pc' = "classify"
    /\ UNCHANGED << args_date, source, resolved, earnings_tickers, loads, allow_list,
                    filter_calls, idx, result, exc, recommended, consider, avoid, errors,
                    results, filterVars >>

\* if isinstance(result, dict) is false: nothing more happens to the entry.
ClassifySkip ==
    /\ pc = "classify"
    /\ ~IsDict(result)
    /\ pc' = "loop"
    /\ UNCHANGED << args_date, source, resolved, earnings_tickers, loads, allow_list,
                    filter_calls, analyzerVars, filterVars >>

\* One of the four result[...] lookups raises KeyError.
ClassifyKeyError ==
    /\ pc = "classify"
    /\ IsDict(result)
    /\ FirstMissing(result) # 0
    /\ exc' = KeyErrorStr[FirstMissing(result)]
    /\ pc' = "except"
    /\ UNCHANGED << args_date, source, resolved, earnings_tickers, loads, allow_list,
                    filter_calls, idx, result, recommended, consider, avoid, errors,
                    results, trace, filterVars >>

\* The dict is read, the recommendation computed and the record appended.
ClassifyAppend ==
    /\ pc = "classify"
    /\ IsDict(result)
    /\ FirstMissing(result) = 0
    /\ LET ticker_info == TickerInfo(Entry, result)
           bucket == BucketOf(ticker_info.recommendation)
       IN  /\ recommended' = IF bucket = "recommended"
                             THEN Append(recommended, ticker_info) ELSE recommended
           /\ consider' = IF bucket = "consider"
                          THEN Append(consider, ticker_info) ELSE consider
           /\ avoid' = IF bucket = "avoid" THEN Append(avoid, ticker_info) ELSE avoid
    /\ pc' = "loop"
    /\ UNCHANGED << args_date, source, resolved, earnings_tickers, loads, allow_list,
                    filter_calls, idx, result, exc, errors, results, trace, filterVars >>

\* except Exception as e: errors.append((symbol, str(e))); continue
Except ==
    /\ pc = "except"
    /\ errors' = ErrorsAfter(errors, Entry.symbol, exc)
    /\ pc' = AfterExcept
    /\ UNCHANGED << args_date, source, resolved, earnings_tickers, loads, allow_list,
                    filter_calls, idx, result, exc, recommended, consider, avoid,
                    results, trace, filterVars >>

\* all_relevant = recommended + consider; print_results(...): only prints.
Report ==
    /\ pc = "report"
    /\ pc' = "done"
    /\ UNCHANGED << args_date, source, resolved, earnings_tickers, loads, allow_list,
                    filter_calls, analyzerVars, filterVars >>

Next ==
    \/ MainResolve
    \/ MainNoTickers
    \/ MainFilter
    \/ LoopNext
    \/ LoopExit
    \/ ScorerReturns
    \/ ScorerRaises
    \/ Sleep
    \/ ClassifySkip
    \/ ClassifyKeyError
    \/ ClassifyAppend
    \/ Except
    \/ Report

Spec == Init /\ [][Next]_vars

\* ----------------------------------------- filter_stocks called on its own
InitFilter ==
    /\ pc = "idle"
    /\ args_date = NoDate
    /\ InitCommon

\* filter_stocks(tickers, rules) for any entries, rule set and file.
FilterCall ==
    /\ pc = "idle"
    /\ \E tickers \in SeqsUpTo({RowToTicker(r) : r \in Rows}, MaxRows),
          rules \in RuleSets, file \in Files :
         LET out == FilterStocks(tickers, rules, file)
         IN  /\ f_in' = tickers
             /\ f_rules' = rules
             /\ f_file' = file
             /\ f_out' = out
             /\ loads' = IF out.loaded THEN loads + 1 ELSE loads
    /\ filter_calls' = filter_calls + 1
    /\ pc' = "returned"
    /\ UNCHANGED << args_date, source, resolved, earnings_tickers, allow_list, analyzerVars >>

NextFilter == FilterCall

SpecFilter == InitFilter /\ [][NextFilter]_vars

\* =================================================================== claims
\* Vocabulary of the properties below.

\* The entries whose loop iteration is over.
Processed == IF pc \in {"call", "sleep", "classify", "except"} THEN idx - 1 ELSE idx

\* analyze_earnings_plays has returned.
AnalysisOver == pc \in {"report", "done"} /\ filter_calls = 1

\* A well-formed signals record: a dict holding all four keys.
WellFormed(r) == r.kind = "dict" /\ r.keys = AllKeys

Raised(r) == r.kind = "raise"

\* The rule of the specification, section 4.3.
RefLabel(r) ==
    IF r.avg_volume /\ r.iv30_rv30 /\ r.ts_slope_0_45 THEN "Recommended"
    ELSE IF r.ts_slope_0_45 /\ (r.avg_volume # r.iv30_rv30) THEN "Consider"
    ELSE "Avoid"

\* The categorized entry the specification expects for entry i.
RefRecord(i) ==
    [symbol |-> earnings_tickers[i].symbol, time |-> earnings_tickers[i].time,
     expected_move |-> results[i].expected_move, recommendation |-> RefLabel(results[i])]

BucketLabelled(label) ==
    IF label = "Recommended" THEN recommended
    ELSE IF label = "Consider" THEN consider ELSE avoid

Labels == {"Recommended", "Consider", "Avoid"}

CallsAt == {k \in 1..Len(trace) : trace[k].ev = "call"}
ProgressAt == {k \in 1..Len(trace) : trace[k].ev = "progress"}
SleepsAt == {k \in 1..Len(trace) : trace[k].ev = "sleep"}

\* ---------------------------------------------------------------------- C1
\* C1: while no scorer call has returned a malformed value, the four lists
\* partition the entries processed so far: their lengths add up to the number
\* of processed entries, errors holds one pair per entry whose scoring raised
\* (per symbol), and the three buckets together hold one record per entry
\* that was scored successfully (per symbol and time).
C1_Partition ==
    (\A i \in 1..Processed : WellFormed(results[i]) \/ Raised(results[i]))
    =>
    /\ Len(recommended) + Len(consider) + Len(avoid) + Len(errors) = Processed
    /\ \A s \in Symbols :
         Cardinality({k \in 1..Len(errors) : errors[k][1] = s})
           = Cardinality({i \in 1..Processed :
                             earnings_tickers[i].symbol = s /\ Raised(results[i])})
    /\ \A e \in Range(earnings_tickers) :
         Cardinality({k \in 1..Len(recommended) :
                         recommended[k].symbol = e.symbol /\ recommended[k].time = e.time})
         + Cardinality({k \in 1..Len(consider) :
                         consider[k].symbol = e.symbol /\ consider[k].time = e.time})
         + Cardinality({k \in 1..Len(avoid) :
                         avoid[k].symbol = e.symbol /\ avoid[k].time = e.time})
           = Cardinality({i \in 1..Processed :
                             earnings_tickers[i] = e /\ WellFormed(results[i])})

C1_Witness ==
    /\ AnalysisOver
    /\ Len(earnings_tickers) = 2
    /\ \A i \in 1..Processed : WellFormed(results[i]) \/ Raised(results[i])
    /\ Len(errors) = 1
    /\ Len(recommended) + Len(consider) + Len(avoid) = 1

\* ---------------------------------------------------------------------- C2
\* C2: the bucket of every successfully scored entry is the one the reference
\* rule gives for its three booleans: the entry's record, labelled by the
\* rule, is in the bucket of that label, every record sits in the bucket of
\* its own label, and the buckets hold no other records.
C2_Classification ==
    /\ \A i \in 1..Processed :
         WellFormed(results[i]) => RefRecord(i) \in Range(BucketLabelled(RefLabel(results[i])))
    /\ \A label \in Labels : \A k \in 1..Len(BucketLabelled(label)) :
         BucketLabelled(label)[k].recommendation = label
    /\ Len(recommended) + Len(consider) + Len(avoid)
         = Cardinality({i \in 1..Processed : WellFormed(results[i])})

C2_Witness ==
    /\ Processed = 2
    /\ WellFormed(results[1]) /\ WellFormed(results[2])
    /\ ~results[1].avg_volume /\ results[1].iv30_rv30 /\ results[1].ts_slope_0_45
    /\ results[2].avg_volume /\ results[2].iv30_rv30 /\ ~results[2].ts_slope_0_45
    /\ Len(consider) = 1 /\ Len(avoid) = 1

\* ---------------------------------------------------------------------- C3
\* What entry i alone contributes to the bucket of a label, and to errors.
BucketPart(i, label) ==
    IF WellFormed(results[i]) /\ RefLabel(results[i]) = label THEN <<RefRecord(i)>> ELSE <<>>

ErrorPart(i) ==
    IF Raised(results[i]) THEN << <<earnings_tickers[i].symbol, results[i].msg>> >>
    ELSE IF results[i].kind = "dict" /\ ~WellFormed(results[i])
    THEN << <<earnings_tickers[i].symbol,
              KeyErrorStr[CHOOSE k \in 1..Len(SignalKeys) :
                             /\ SignalKeys[k] \notin results[i].keys
                             /\ \A j \in 1..(k - 1) : SignalKeys[j] \in results[i].keys]>> >>
    ELSE <<>>

RECURSIVE BucketUpTo(_, _)
BucketUpTo(n, label) ==
    IF n = 0 THEN <<>> ELSE BucketUpTo(n - 1, label) \o BucketPart(n, label)

RECURSIVE ErrorsUpTo(_)
ErrorsUpTo(n) == IF n = 0 THEN <<>> ELSE ErrorsUpTo(n - 1) \o ErrorPart(n)

\* C3: a scoring failure for an entry adds exactly one (symbol, message) pair
\* to errors and nothing else: each list is the concatenation, in input order,
\* of what every processed entry contributes by its own scorer outcome alone,
\* and the loop goes on to the end of the input whatever failed.
C3_FaultIsolation ==
    /\ \A label \in Labels : BucketLabelled(label) = BucketUpTo(Processed, label)
    /\ errors = ErrorsUpTo(Processed)
    /\ AnalysisOver => Processed = Len(earnings_tickers) /\ Len(results) = Len(earnings_tickers)

C3_Witness ==
    /\ Processed = 2
    /\ Raised(results[1])
    /\ WellFormed(results[2])
    /\ errors = << <<earnings_tickers[1].symbol, "boom">> >>
    /\ Len(recommended) = 1

\* ---------------------------------------------------------------------- C4
\* C4: a call of filter_stocks that returns gives back, in input order, the
\* entries whose symbol is an element of the loaded allow-list when
\* use_static_list is true, and the input itself, without loading the
\* allow-list, otherwise; it fails only when the list is wanted and the file
\* is missing.
C4_Filter ==
    pc = "returned" =>
      LET wanted == f_rules.given /\ f_rules.has /\ f_rules.val
          Listed(e) == \E k \in 1..Len(f_out.static) : f_out.static[k] = e.symbol
      IN  /\ (f_out.kind = "raise") = (wanted /\ ~f_file.exists)
          /\ (f_out.kind = "return" /\ wanted) =>
                /\ f_out.val = SelectSeq(f_in, Listed)
                /\ loads = 1
          /\ ~wanted =>
                /\ f_out.val = f_in
                /\ loads = 0
                /\ ~f_out.loaded

C4_Witness ==
    /\ pc = "returned"
    /\ f_rules = MainRules
    /\ f_out.kind = "return"
    /\ Len(f_in) = 2
    /\ f_in[1].symbol = <<"a">> /\ f_in[2].symbol = <<"A">>
    /\ f_out.val = <<f_in[2]>>

\* ---------------------------------------------------------------------- C5
\* C5: every symbol the scorer is called with was returned by the calendar
\* resolver in this run and is in the loaded allow-list; when the resolver
\* returned nothing, neither filter_stocks nor the scorer is called.
C5_OnlyAllowListed ==
    /\ \A k \in CallsAt :
         /\ \E i \in 1..Len(resolved.val) : resolved.val[i].symbol = trace[k].symbol
         /\ trace[k].symbol \in allow_list
    /\ (resolved.val = <<>>) => (filter_calls = 0 /\ loads = 0 /\ CallsAt = {})

C5_Witness ==
    /\ AnalysisOver
    /\ CallsAt # {}
    /\ \E i \in 1..Len(resolved.val) : resolved.val[i].symbol \notin allow_list

\* ---------------------------------------------------------------------- C6
\* C6 as claimed: the scorer is called at most once per symbol in a run.
C6_OncePerSymbol ==
    \A s \in Symbols : Cardinality({k \in CallsAt : trace[k].symbol = s}) <= 1

\* C6 as amended: the scorer is called at most once per entry of the filtered
\* list, exactly once per entry when the analysis is over, so a symbol is
\* scored as often as it has entries in that list.
C6_OncePerEntry ==
    LET calls == CallsAt
    IN  /\ \A i \in 1..Len(earnings_tickers) :
             Cardinality({k \in calls : trace[k].idx = i}) <= 1
        /\ \A k \in calls :
             /\ trace[k].idx \in 1..Len(earnings_tickers)
             /\ trace[k].symbol = earnings_tickers[trace[k].idx].symbol
        /\ AnalysisOver =>
             \A s \in Symbols :
                Cardinality({k \in calls : trace[k].symbol = s})
                  = Cardinality({i \in 1..Len(earnings_tickers) :
                                    earnings_tickers[i].symbol = s})

C6_Witness ==
    /\ AnalysisOver
    /\ \E k1, k2 \in CallsAt : k1 < k2 /\ trace[k1].symbol = trace[k2].symbol

\* ---------------------------------------------------------------------- C7
\* The date strings that are a real date written YYYY-MM-DD.
WellFormedDates == { [fmt |-> "ymd", y |-> 2024, m |-> 2, d |-> 29] }

\* C7: get_earnings_for_date always returns: the empty list, without asking
\* the source, for a malformed date string; the empty list when the source
\* raises or returns no rows; and a non-empty list only when the source
\* returned rows, one entry per row, in order.
C7_ResolverNeverRaises ==
    pc \notin {"start", "idle"} =>
      /\ resolved.kind = "return"
      /\ (args_date # NoDate /\ args_date \notin WellFormedDates)
            => (resolved.val = <<>> /\ source = NotQueried)
      /\ source.kind = "raise" => resolved.val = <<>>
      /\ (source.kind = "df" /\ source.rows = <<>>) => resolved.val = <<>>
      /\ resolved.val # <<>> =>
            /\ source.kind = "df"
            /\ Len(source.rows) >= 1
            /\ Len(resolved.val) = Len(source.rows)
            /\ \A i \in 1..Len(source.rows) : resolved.val[i].symbol = source.rows[i].symbol

C7_Witness ==
    /\ pc = "done"
    /\ source.kind = "raise"
    /\ resolved = [kind |-> "return", val |-> <<>>]

\* ---------------------------------------------------------------------- C8
\* C8 as claimed: between any two scorer calls there is a sleep.
C8_SleepBetweenCalls ==
    \A k1, k2 \in CallsAt :
        k1 < k2 => \E k \in SleepsAt : k1 < k /\ k < k2

\* ---------------------------------------------------------------------- C9
\* C9 as claimed: an entry whose scorer call returned a malformed value (no
\* dict, or a dict lacking a key) is in no bucket and not in errors: errors
\* holds only the entries whose scoring raised, the buckets only the
\* well-formed ones.
C9_MalformedSkipped ==
    /\ Len(errors) = Cardinality({i \in 1..Processed : Raised(results[i])})
    /\ Len(recommended) + Len(consider) + Len(avoid)
         = Cardinality({i \in 1..Processed : WellFormed(results[i])})

\* C9 as amended: a returned value that is no dict is skipped silently and the
\* entries after it are still processed; a dict lacking a key is not skipped,
\* it is recorded in errors with the missing key as the message.
C9_NonDictSkipped ==
    /\ Len(errors) = Cardinality({i \in 1..Processed :
                                     \/ Raised(results[i])
                                     \/ (results[i].kind = "dict" /\ ~WellFormed(results[i]))})
    /\ Len(recommended) + Len(consider) + Len(avoid)
         = Cardinality({i \in 1..Processed : WellFormed(results[i])})
    /\ \A i \in 1..Processed :
         (results[i].kind = "dict" /\ ~WellFormed(results[i])) =>
            \E k \in 1..Len(SignalKeys) :
               /\ SignalKeys[k] \notin results[i].keys
               /\ <<earnings_tickers[i].symbol, KeyErrorStr[k]>> \in Range(errors)
    /\ AnalysisOver => Len(results) = Len(earnings_tickers)

C9_Witness ==
    /\ AnalysisOver
    /\ Processed = 2
    /\ results[1].kind = "nondict"
    /\ WellFormed(results[2])
    /\ errors = <<>>
    /\ Len(recommended) + Len(consider) + Len(avoid) = 1

\* --------------------------------------------------------------------- C10
\* C10 as claimed: once an entry's scorer call has finished and the next call
\* has begun or the analysis is over, a progress signal was emitted after
\* that call and before any later call; one signal per processed entry.
C10_CompletionSignalled ==
    /\ \A k \in CallsAt :
         (AnalysisOver \/ \E k2 \in CallsAt : k2 > k) =>
            \E p \in ProgressAt :
               /\ p > k
               /\ \A k2 \in CallsAt : k2 > k => p < k2
    /\ AnalysisOver => Cardinality(ProgressAt) = Len(earnings_tickers)

\* C10 as amended: exactly one progress signal per entry, naming the entry and
\* emitted immediately before that entry's scorer call, after the handling of
\* the entry before it; no signal follows an entry's scorer call until the
\* next entry is taken up.
C10_ProgressBeforeCall ==
    LET calls == CallsAt
        progress == ProgressAt
    IN  /\ \A k \in calls :
             /\ k > 1
             /\ trace[k - 1] = [ev |-> "progress", idx |-> trace[k].idx,
                                symbol |-> trace[k].symbol]
        /\ \A i \in 1..idx : Cardinality({p \in progress : trace[p].idx = i}) = 1
        /\ Cardinality(progress) = idx
        /\ \A p \in progress : \A k \in calls : trace[k].idx = trace[p].idx => p < k
        /\ AnalysisOver => Cardinality(progress) = Len(earnings_tickers)

C10_Witness ==
    /\ AnalysisOver
    /\ Len(earnings_tickers) = 2
    /\ Cardinality(ProgressAt) = 2
    /\ Raised(results[1])

====
